---- MODULE Spec2Model ----
(***************************************************************************)
(* State-machine model of the UI flows of ore-app:                         *)
(*   - InvokeSignature (components/wallet_adapter.rs): the signature       *)
(*     invocation status and the controls rendered for it;                 *)
(*   - ClaimConfirm (components/claim_modal/claim_confirm.rs): the confirm *)
(*     step of the claim wizard, its busy flag and its spawned claim task. *)
(*   - ImportKey / ImportKeyImport (components/import_key.rs): the import  *)
(*     step, the validation of the pasted key and the balance queries.     *)
(* The flows own disjoint state.  Spec is the signature and claim flows,   *)
(* which interleave freely; ImportSpec is the key-import flow.             *)
(***************************************************************************)
EXTENDS Integers, Sequences, FiniteSets

\* ------------------------------------------------------------ bounds
\* Greatest number of clicks on the Start / Retry control that is explored.
MaxInvokes == 3
\* Number of distinct signatures the wallet bridge may answer with.
NumSigs == 2
\* Greatest number of clicks on the Confirm control that is explored.
MaxSubmits == 2
\* Greatest staged claim amount (smallest unit) that is explored.
MaxAmount == 2
\* Greatest number of changes of the key input that is explored.
MaxInputs == 3
\* Greatest SOL balance (lamports) a balance query answers with.
MaxBalance == 2

\* const KEY_LENGTH: usize = 64
KEY_LENGTH == 64

VARIABLES
    \* ---- InvokeSignature
    status,          \* signal: Signal<InvokeSignatureStatus>
    bridgePending,   \* wallet-bridge calls awaiting their answer
    bridgeCalls,     \* wallet-bridge calls made so far
    invokeClicks,    \* clicks on the Start / Retry control so far
    results,         \* outcomes applied to status, oldest first (TRUE = signed)
    \* ---- claim wizard
    claim_step,      \* claim_step: UseState<ClaimStep>, owned by the hosting page
    confirmMounted,  \* a ClaimConfirm scope exists (its hooks and tasks are alive)
    is_busy,         \* is_busy: UseState<bool> of the mounted ClaimConfirm
    amount,          \* props.amount of ClaimConfirm (0: nothing staged yet)
    confirm_disabled, \* disabled attribute of the Confirm button as last rendered
    claimTasks,      \* futures given to cx.spawn that have not been polled yet
    claimCalls,      \* gateway.claim_ore calls the gateway has not answered yet
    claimSubmits,    \* clicks on the Confirm control so far
    proof_restarts,  \* proof_handle.restart() calls so far
    claimAnswer,     \* the gateway's latest answer: the call's id, the outcome,
                     \* and whether the spawned task was alive to receive it
    \* ---- ImportKey
    step,                  \* step: Signal<ImportKeyStep>
    sol_balance,           \* use_sol_balance(): AsyncResult of the current key
    acknowledged,          \* the loss-of-funds button has been clicked
    \* ---- ImportKeyImport
    private_key_input,     \* private_key_input: Signal<String>
    enable_import_button,  \* enable_import_button: Signal<bool>
    err_msg,               \* err_msg: Signal<Option<String>>
    import_sol_balance,    \* sol_balance: Signal<Option<AsyncResult<u64>>>
    balanceQuery,          \* the input whose get_balance call is awaited
    balanceQueries,        \* get_balance calls issued so far
    inputChanges,          \* oninput events so far
    pasted,                \* e.value() of the latest oninput event
    queriedInputs,         \* the inputs get_balance was called for so far
    validationDue,         \* the input was written since the future last read it
    panicked,              \* a handler panicked: the page is dead
    keypair_persistent     \* the stored keypair (use_keypair_persistent)

walletVars == <<status, bridgePending, bridgeCalls, invokeClicks, results>>
claimVars == <<claim_step, confirmMounted, is_busy, confirm_disabled, amount,
               claimTasks, claimCalls, claimSubmits, proof_restarts, claimAnswer>>
importVars == <<step, sol_balance, acknowledged, private_key_input,
                enable_import_button, err_msg, import_sol_balance,
                balanceQuery, balanceQueries, inputChanges, pasted,
                queriedInputs, validationDue, panicked, keypair_persistent>>
vars == <<status, bridgePending, bridgeCalls, invokeClicks, results,
          claim_step, confirmMounted, is_busy, confirm_disabled, amount,
          claimTasks, claimCalls, claimSubmits, proof_restarts, claimAnswer,
          step, sol_balance, acknowledged, private_key_input,
          enable_import_button, err_msg, import_sol_balance,
          balanceQuery, balanceQueries, inputChanges, pasted, queriedInputs,
          validationDue, panicked, keypair_persistent>>

\* ============================================================ InvokeSignature
Sigs == 1..NumSigs

\* enum InvokeSignatureStatus { Start, Waiting, DoneWithError, Done(Signature) }
Start == [tag |-> "Start", sig |-> 0]
Waiting == [tag |-> "Waiting", sig |-> 0]
DoneWithError == [tag |-> "DoneWithError", sig |-> 0]
Done(sig) == [tag |-> "Done", sig |-> sig]
InvokeSignatureStatus == {Start, Waiting, DoneWithError} \cup {Done(s) : s \in Sigs}

\* What the wallet bridge can answer to one sign-and-send call.
BridgeOutcomes == [ok : {TRUE}, sig : Sigs] \cup [ok : {FALSE}, sig : {0}]

\* --- faulty variants of InvokeSignature (a clickable control where the
\* component renders a disabled one, or the reverse)
InvokeSignatureWaitingClickable(s) ==
    CASE s.tag = "Start" -> "StartButton"
      [] s.tag = "Waiting" -> "StartButton"
      [] s.tag = "DoneWithError" -> "RetryButton"
      [] s.tag = "Done" -> "DisabledCheck"

InvokeSignatureDoneClickable(s) ==
    CASE s.tag = "Start" -> "StartButton"
      [] s.tag = "Waiting" -> "DisabledSpinner"
      [] s.tag = "DoneWithError" -> "RetryButton"
      [] s.tag = "Done" -> "RetryButton"

InvokeSignatureNoRetry(s) ==
    CASE s.tag = "Start" -> "StartButton"
      [] s.tag = "Waiting" -> "DisabledSpinner"
      [] s.tag = "DoneWithError" -> "DisabledCheck"
      [] s.tag = "Done" -> "DisabledCheck"

\* The control the component renders for the status it reads: a button with an
\* onclick handler (Start, Retry) or a disabled button without one.
InvokeSignature(s) ==
    CASE s.tag = "Start" -> "StartButton"
      [] s.tag = "Waiting" -> "DisabledSpinner"
      [] s.tag = "DoneWithError" -> "RetryButton"
      [] s.tag = "Done" -> "DisabledCheck"

\* use_wallet_adapter::invoke_signature(tx, signal), synchronous part: the
\* status becomes Waiting and one sign-and-send call is handed to the bridge.
invoke_signature ==
    /\ status' = Waiting
    /\ bridgePending' = bridgePending + 1
    /\ bridgeCalls' = bridgeCalls + 1

\* --- faulty variant of OnClickStart: the handler does not invoke synchronously
OnClickStartDeferred ==
    /\ InvokeSignature(status) = "StartButton"
    /\ invokeClicks < MaxInvokes
    /\ invokeClicks' = invokeClicks + 1
    /\ UNCHANGED <<status, bridgePending, bridgeCalls, results>>
    /\ UNCHANGED claimVars
    /\ UNCHANGED importVars

\* onclick of the button rendered for Start.
OnClickStart ==
    /\ InvokeSignature(status) = "StartButton"
    /\ invokeClicks < MaxInvokes
    /\ invokeClicks' = invokeClicks + 1
    /\ invoke_signature
    /\ UNCHANGED results
    /\ UNCHANGED claimVars
    /\ UNCHANGED importVars

\* --- faulty variants of OnClickRetry
\* a reset button instead of a retry button
OnClickReset ==
    /\ InvokeSignature(status) = "RetryButton"
    /\ invokeClicks < MaxInvokes
    /\ invokeClicks' = invokeClicks + 1
    /\ status' = Start
    /\ UNCHANGED <<bridgePending, bridgeCalls, results>>
    /\ UNCHANGED claimVars
    /\ UNCHANGED importVars

\* the failure branch re-invokes by itself, without a click
AutoRetry ==
    /\ InvokeSignature(status) = "RetryButton"
    /\ bridgeCalls < MaxInvokes
    /\ invoke_signature
    /\ UNCHANGED <<invokeClicks, results>>
    /\ UNCHANGED claimVars
    /\ UNCHANGED importVars

\* onclick of the Retry button rendered for DoneWithError.
OnClickRetry ==
    /\ InvokeSignature(status) = "RetryButton"
    /\ invokeClicks < MaxInvokes
    /\ invokeClicks' = invokeClicks + 1
    /\ invoke_signature
    /\ UNCHANGED results
    /\ UNCHANGED claimVars
    /\ UNCHANGED importVars

\* --- faulty variant of BridgeResolve: a failure is swallowed, the status
\* stays Waiting
BridgeResolveSwallowsError(r) ==
    /\ bridgePending > 0
    /\ bridgePending' = bridgePending - 1
    /\ status' = IF r.ok THEN Done(r.sig) ELSE status
    /\ results' = Append(results, r.ok)
    /\ UNCHANGED <<bridgeCalls, invokeClicks>>
    /\ UNCHANGED claimVars
    /\ UNCHANGED importVars

\* invoke_signature, asynchronous part: the bridge answers a pending call and
\* the answer is written to the status.
BridgeResolve(r) ==
    /\ bridgePending > 0
    /\ bridgePending' = bridgePending - 1
    /\ status' = IF r.ok THEN Done(r.sig) ELSE DoneWithError
    /\ results' = Append(results, r.ok)
    /\ UNCHANGED <<bridgeCalls, invokeClicks>>
    /\ UNCHANGED claimVars
    /\ UNCHANGED importVars

BridgeAnswers == \E r \in BridgeOutcomes : BridgeResolve(r)

\* ============================================================ claim wizard
\* enum ClaimStep { Edit, Confirm, Done }
ClaimStep == {"Edit", "Confirm", "Done"}
Amounts == 1..MaxAmount

\* The rendered screen is the one of the current step: every re-render that a
\* step change scheduled has run.
Rendered == confirmMounted = (claim_step = "Confirm")

\* The hosting page stages an amount and moves Edit -> Confirm.
EnterConfirm(a) ==
    /\ Rendered
    /\ claim_step = "Edit"
    /\ claim_step' = "Confirm"
    /\ amount' = a
    /\ UNCHANGED <<confirmMounted, is_busy, confirm_disabled, claimTasks,
                   claimCalls, claimSubmits, proof_restarts, claimAnswer>>
    /\ UNCHANGED walletVars
    /\ UNCHANGED importVars

\* Confirm button: the expression of its disabled attribute.
ConfirmDisabled == is_busy

\* First render of ClaimConfirm after the step became Confirm: its hooks are
\* created, is_busy starts false, and the button is rendered from it.
MountClaimConfirm ==
    /\ claim_step = "Confirm"
    /\ ~confirmMounted
    /\ confirmMounted' = TRUE
    /\ is_busy' = FALSE
    /\ confirm_disabled' = FALSE
    /\ UNCHANGED <<claim_step, amount, claimTasks, claimCalls, claimSubmits,
                   proof_restarts, claimAnswer>>
    /\ UNCHANGED walletVars
    /\ UNCHANGED importVars

\* Re-render of ClaimConfirm that a write of is_busy scheduled: the disabled
\* attribute of the Confirm button takes the current value.
RenderClaimConfirm ==
    /\ claim_step = "Confirm"
    /\ confirmMounted
    /\ confirm_disabled # ConfirmDisabled
    /\ confirm_disabled' = ConfirmDisabled
    /\ UNCHANGED <<claim_step, confirmMounted, is_busy, amount, claimTasks,
                   claimCalls, claimSubmits, proof_restarts, claimAnswer>>
    /\ UNCHANGED walletVars
    /\ UNCHANGED importVars

\* Re-render of the hosting page after the step left Confirm: the ClaimConfirm
\* scope is dropped, with its is_busy hook and the tasks cx.spawn gave it.  A
\* task that was never polled has made no call; the claim_ore call a task was
\* awaiting is not recalled from the gateway.
UnmountClaimConfirm ==
    /\ claim_step # "Confirm"
    /\ confirmMounted
    /\ confirmMounted' = FALSE
    /\ is_busy' = FALSE
    /\ confirm_disabled' = FALSE
    /\ claimTasks' = {}
    /\ claimCalls' = {[c EXCEPT !.live = FALSE] : c \in claimCalls}
    /\ UNCHANGED <<claim_step, amount, claimSubmits, proof_restarts, claimAnswer>>
    /\ UNCHANGED walletVars
    /\ UNCHANGED importVars

\* BackButton onclick, on the mounted component: the handler tests nothing.
OnClickBack ==
    /\ confirmMounted
    /\ claim_step' = "Edit"
    /\ UNCHANGED <<confirmMounted, is_busy, confirm_disabled, amount, claimTasks,
                   claimCalls, claimSubmits, proof_restarts, claimAnswer>>
    /\ UNCHANGED walletVars
    /\ UNCHANGED importVars

\* Confirm button onclick, on the mounted component: the handler tests
\* nothing, the click is held back only by the disabled attribute the last
\* render gave the button.  It sets is_busy and hands the future to cx.spawn;
\* the future has not run when the handler returns.
OnClickConfirm ==
    /\ confirmMounted
    /\ ~confirm_disabled
    /\ claimSubmits < MaxSubmits
    /\ is_busy' = TRUE
    /\ claimSubmits' = claimSubmits + 1
    /\ claimTasks' = claimTasks \cup
           {[id |-> claimSubmits + 1, amount |-> amount]}
    /\ UNCHANGED <<claim_step, confirmMounted, confirm_disabled, amount,
                   claimCalls, proof_restarts, claimAnswer>>
    /\ UNCHANGED walletVars
    /\ UNCHANGED importVars

\* First poll of a spawned task: gateway.claim_ore(amount) is called and the
\* task waits for its answer.
PollClaimTask(t) ==
    /\ t \in claimTasks
    /\ claimTasks' = claimTasks \ {t}
    /\ claimCalls' = claimCalls \cup
           {[id |-> t.id, amount |-> t.amount, live |-> TRUE]}
    /\ UNCHANGED <<claim_step, confirmMounted, is_busy, confirm_disabled, amount,
                   claimSubmits, proof_restarts, claimAnswer>>
    /\ UNCHANGED walletVars
    /\ UNCHANGED importVars

\* --- faulty variant of ClaimResolve: the Err branch leaves is_busy set
ClaimResolveErrKeepsBusy(c, ok) ==
    /\ c \in claimCalls
    /\ c.live
    /\ claimCalls' = claimCalls \ {c}
    /\ claimAnswer' = [id |-> c.id, ok |-> ok, live |-> TRUE]
    /\ IF ok
         THEN /\ is_busy' = FALSE
              /\ proof_restarts' = proof_restarts + 1
              /\ claim_step' = "Done"
         ELSE UNCHANGED <<is_busy, proof_restarts, claim_step>>
    /\ UNCHANGED <<confirmMounted, confirm_disabled, amount, claimTasks,
                   claimSubmits>>
    /\ UNCHANGED walletVars
    /\ UNCHANGED importVars

\* The spawned task resumes with the gateway's answer to its claim_ore call.
ClaimResolve(c, ok) ==
    /\ c \in claimCalls
    /\ c.live
    /\ claimCalls' = claimCalls \ {c}
    /\ claimAnswer' = [id |-> c.id, ok |-> ok, live |-> TRUE]
    /\ is_busy' = FALSE
    /\ IF ok
         THEN /\ proof_restarts' = proof_restarts + 1
              /\ claim_step' = "Done"
         ELSE UNCHANGED <<proof_restarts, claim_step>>
    /\ UNCHANGED <<confirmMounted, confirm_disabled, amount, claimTasks,
                   claimSubmits>>
    /\ UNCHANGED walletVars
    /\ UNCHANGED importVars

\* The gateway answers a call whose task was dropped with its scope: nothing
\* of the task's continuation runs.
ClaimResolveDropped(c, ok) ==
    /\ c \in claimCalls
    /\ ~c.live
    /\ claimCalls' = claimCalls \ {c}
    /\ claimAnswer' = [id |-> c.id, ok |-> ok, live |-> FALSE]
    /\ UNCHANGED <<claim_step, confirmMounted, is_busy, confirm_disabled, amount,
                   claimTasks, claimSubmits, proof_restarts>>
    /\ UNCHANGED walletVars
    /\ UNCHANGED importVars

GatewayAnswers ==
    \E c \in claimCalls, ok \in BOOLEAN :
        ClaimResolve(c, ok) \/ ClaimResolveDropped(c, ok)

\* The scheduler polls the tasks it was given.
PollsTasks == \E t \in claimTasks : PollClaimTask(t)

\* ============================================================ key import
\* enum ImportKeyStep { Loading, Warning, Import }
ImportKeyStep == {"Loading", "Warning", "Import"}

\* gateway::AsyncResult<u64> { Loading, Ok(u64), Error(GatewayError) }, and
\* None of the Option that wraps it in ImportKeyImport.
Balances == 0..MaxBalance
AsyncLoading == [tag |-> "Loading", val |-> 0]
AsyncError == [tag |-> "Error", val |-> 0]
AsyncOk(b) == [tag |-> "Ok", val |-> b]
NoBalance == [tag |-> "None", val |-> 0]
BalanceAnswers == {AsyncOk(b) : b \in Balances} \cup {AsyncError}

\* The texts pasted into the key input, one of each kind the validation
\* tells apart.
Keys == {"", "not-base58", "32-bytes", "65-bytes", "64-bytes-keypair-A",
         "64-bytes-keypair-B", "64-bytes-no-keypair"}

\* bs58::decode(text).into_vec(): whether it is Ok, and the number of bytes.
bs58_decode(k) ==
    CASE k = "" -> [ok |-> TRUE, len |-> 0]
      [] k = "not-base58" -> [ok |-> FALSE, len |-> 0]
      [] k = "32-bytes" -> [ok |-> TRUE, len |-> 32]
      [] k = "65-bytes" -> [ok |-> TRUE, len |-> 65]
      [] OTHER -> [ok |-> TRUE, len |-> 64]

\* Keypair::from_bytes(&bytes) is Ok.
Keypair_from_bytes(k) == k \in {"64-bytes-keypair-A", "64-bytes-keypair-B"}

\* The stored keypair before any import, and no awaited query.
CurrentKey == "current-key"
NoQuery == "no-query"
NoError == "None"

\* The import page is shown and runs: nothing was imported yet (an import
\* navigates to the settings page) and no handler has panicked.
OnImportPage == keypair_persistent = CurrentKey /\ ~panicked

\* use_sol_balance(): the query of the current key's balance is answered.
SolBalanceResolve(r) ==
    /\ OnImportPage
    /\ sol_balance = AsyncLoading
    /\ sol_balance' = r
    /\ UNCHANGED <<step, acknowledged, private_key_input, enable_import_button,
                   err_msg, import_sol_balance, balanceQuery, balanceQueries,
                   inputChanges, pasted, queriedInputs, validationDue, panicked, keypair_persistent>>
    /\ UNCHANGED <<walletVars, claimVars>>

\* use_sol_balance(): the query is restarted.
SolBalanceRestart ==
    /\ OnImportPage
    /\ sol_balance # AsyncLoading
    /\ sol_balance' = AsyncLoading
    /\ UNCHANGED <<step, acknowledged, private_key_input, enable_import_button,
                   err_msg, import_sol_balance, balanceQuery, balanceQueries,
                   inputChanges, pasted, queriedInputs, validationDue, panicked, keypair_persistent>>
    /\ UNCHANGED <<walletVars, claimVars>>

\* --- faulty variants of StepEffect
\* the balance test is >= 0: a zero balance is routed through Warning
StepEffectAlwaysWarns ==
    /\ OnImportPage
    /\ step = "Loading"
    /\ sol_balance.tag = "Ok"
    /\ step' = IF sol_balance.val >= 0 THEN "Warning" ELSE "Import"
    /\ UNCHANGED <<sol_balance, acknowledged, private_key_input,
                   enable_import_button, err_msg, import_sol_balance,
                   balanceQuery, balanceQueries, inputChanges, pasted, queriedInputs, validationDue, panicked, keypair_persistent>>
    /\ UNCHANGED <<walletVars, claimVars>>

\* the effect does not test the current step
StepEffectAnyStep ==
    /\ OnImportPage
    /\ sol_balance.tag = "Ok"
    /\ step' = IF sol_balance.val > 0 THEN "Warning" ELSE "Import"
    /\ step' # step
    /\ UNCHANGED <<sol_balance, acknowledged, private_key_input,
                   enable_import_button, err_msg, import_sol_balance,
                   balanceQuery, balanceQueries, inputChanges, pasted, queriedInputs, validationDue, panicked, keypair_persistent>>
    /\ UNCHANGED <<walletVars, claimVars>>

\* use_effect of ImportKey: in Loading, once the balance is Ok, a positive
\* balance sets Warning and a zero balance sets Import.
StepEffect ==
    /\ OnImportPage
    /\ step = "Loading"
    /\ sol_balance.tag = "Ok"
    /\ step' = IF sol_balance.val > 0 THEN "Warning" ELSE "Import"
    /\ UNCHANGED <<sol_balance, acknowledged, private_key_input,
                   enable_import_button, err_msg, import_sol_balance,
                   balanceQuery, balanceQueries, inputChanges, pasted, queriedInputs, validationDue, panicked, keypair_persistent>>
    /\ UNCHANGED <<walletVars, claimVars>>

\* ImportKey renders ImportKeyWarning only while the balance is Ok.
WarningRendered == step = "Warning" /\ sol_balance.tag = "Ok"

\* ImportKeyWarning: onclick of the loss-of-funds button.
OnClickAcknowledge ==
    /\ OnImportPage
    /\ WarningRendered
    /\ step' = "Import"
    /\ acknowledged' = TRUE
    /\ UNCHANGED <<sol_balance, private_key_input, enable_import_button,
                   err_msg, import_sol_balance, balanceQuery, balanceQueries,
                   inputChanges, pasted, queriedInputs, validationDue, panicked, keypair_persistent>>
    /\ UNCHANGED <<walletVars, claimVars>>

\* --- faulty variant of Validate
\* the balance is queried before the bytes are parsed into a keypair
ValidateQueriesBeforeParse(k) ==
    IF bs58_decode(k).ok
      THEN IF bs58_decode(k).len = KEY_LENGTH
             THEN /\ balanceQuery' = k
                  /\ balanceQueries' = balanceQueries + 1
                  /\ enable_import_button' =
                         (IF Keypair_from_bytes(k) THEN TRUE
                                                   ELSE enable_import_button)
                  /\ UNCHANGED err_msg
             ELSE /\ enable_import_button' = FALSE
                  /\ err_msg' = (IF bs58_decode(k).len = 0
                                   THEN NoError ELSE "Invalid length")
                  /\ UNCHANGED balanceQuery
                  /\ UNCHANGED balanceQueries
      ELSE /\ enable_import_button' = FALSE
           /\ err_msg' = "Invalid format"
           /\ UNCHANGED balanceQuery
           /\ UNCHANGED balanceQueries

\* The body of the future of ImportKeyImport up to its await, for the text k
\* it read from private_key_input.
Validate(k) ==
    IF bs58_decode(k).ok
      THEN IF bs58_decode(k).len = KEY_LENGTH
             THEN IF Keypair_from_bytes(k)
                    THEN /\ enable_import_button' = TRUE
                         /\ balanceQuery' = k
                         /\ balanceQueries' = balanceQueries + 1
                         /\ UNCHANGED err_msg
                    ELSE /\ UNCHANGED balanceQuery
                         /\ UNCHANGED <<enable_import_button, err_msg,
                                        balanceQueries>>
             ELSE IF bs58_decode(k).len = 0
                    THEN /\ enable_import_button' = FALSE
                         /\ err_msg' = NoError
                         /\ UNCHANGED balanceQuery
                         /\ UNCHANGED balanceQueries
                    ELSE /\ enable_import_button' = FALSE
                         /\ err_msg' = "Invalid length"
                         /\ UNCHANGED balanceQuery
                         /\ UNCHANGED balanceQueries
      ELSE /\ enable_import_button' = FALSE
           /\ err_msg' = "Invalid format"
           /\ UNCHANGED balanceQuery
           /\ UNCHANGED balanceQueries

\* The future of ImportKeyImport holds the guard of private_key_input.read():
\* a temporary of the scrutinee of its outer if-let, it lives to the end of
\* that statement, across the await of get_balance.
InputBorrowed == balanceQuery # NoQuery

\* oninput of the key input: private_key_input.set(e.value()), nothing else.
\* The handler tests nothing: the signal is written for every input event,
\* also when the text is the one it holds.  Writing the signal while the
\* future holds its read guard panics.
OnInput(k) ==
    /\ OnImportPage
    /\ step = "Import"
    /\ inputChanges < MaxInputs
    /\ inputChanges' = inputChanges + 1
    /\ pasted' = k
    /\ IF InputBorrowed
         THEN /\ panicked' = TRUE
              /\ UNCHANGED <<private_key_input, validationDue>>
         ELSE /\ private_key_input' = k
              /\ validationDue' = TRUE
              /\ UNCHANGED panicked
    /\ UNCHANGED <<step, sol_balance, acknowledged, enable_import_button,
                   err_msg, import_sol_balance, balanceQuery, balanceQueries,
                   queriedInputs, keypair_persistent>>
    /\ UNCHANGED <<walletVars, claimVars>>

\* A run of the future of ImportKeyImport on the written input, up to its
\* await.  The component does not start it: whether and when the framework
\* runs the future again after a write of the input is not its doing.
RunValidation ==
    /\ OnImportPage
    /\ step = "Import"
    /\ validationDue
    /\ ~InputBorrowed
    /\ validationDue' = FALSE
    /\ Validate(private_key_input)
    /\ queriedInputs' = IF balanceQueries' # balanceQueries
                           THEN queriedInputs \cup {private_key_input}
                           ELSE queriedInputs
    /\ UNCHANGED <<step, sol_balance, acknowledged, private_key_input,
                   import_sol_balance, inputChanges, pasted, panicked,
                   keypair_persistent>>
    /\ UNCHANGED <<walletVars, claimVars>>

\* The validation future resumes with the answer of gateway.rpc.get_balance.
BalanceResolve(r) ==
    /\ OnImportPage
    /\ balanceQuery # NoQuery
    /\ import_sol_balance' = r
    /\ balanceQuery' = NoQuery
    /\ UNCHANGED <<step, sol_balance, acknowledged, private_key_input,
                   enable_import_button, err_msg, balanceQueries, inputChanges, pasted, queriedInputs, validationDue, panicked,
                   keypair_persistent>>
    /\ UNCHANGED <<walletVars, claimVars>>

\* Import button: disabled attribute.
ImportDisabled == ~enable_import_button

\* The balance line is rendered only for Some(AsyncResult::Ok(_)).
BalanceShown == import_sol_balance.tag = "Ok"

\* Import button onclick: the input replaces the stored keypair and the app
\* navigates to the settings page.
OnClickImport ==
    /\ OnImportPage
    /\ step = "Import"
    /\ ~ImportDisabled
    /\ keypair_persistent' = private_key_input
    /\ UNCHANGED <<step, sol_balance, acknowledged, private_key_input,
                   enable_import_button, err_msg, import_sol_balance,
                   balanceQuery, balanceQueries, inputChanges, pasted, queriedInputs, validationDue, panicked>>
    /\ UNCHANGED <<walletVars, claimVars>>

\* ============================================================ specification
Init ==
    /\ status = Start
    /\ bridgePending = 0
    /\ bridgeCalls = 0
    /\ invokeClicks = 0
    /\ results = <<>>
    /\ claim_step = "Edit"
    /\ confirmMounted = FALSE
    /\ is_busy = FALSE
    /\ confirm_disabled = FALSE
    /\ amount = 0
    /\ claimTasks = {}
    /\ claimCalls = {}
    /\ claimSubmits = 0
    /\ proof_restarts = 0
    /\ claimAnswer = [id |-> 0, ok |-> FALSE, live |-> FALSE]
    /\ step = "Loading"
    /\ sol_balance = AsyncLoading
    /\ acknowledged = FALSE
    /\ private_key_input = ""
    /\ enable_import_button = FALSE
    /\ err_msg = NoError
    /\ import_sol_balance = NoBalance
    /\ balanceQuery = NoQuery
    /\ balanceQueries = 0
    /\ inputChanges = 0
    /\ pasted = ""
    /\ queriedInputs = {}
    /\ validationDue = FALSE
    /\ panicked = FALSE
    /\ keypair_persistent = CurrentKey

Next ==
    \/ OnClickStart
    \/ OnClickRetry
    \/ \E r \in BridgeOutcomes : BridgeResolve(r)
    \/ \E a \in Amounts : EnterConfirm(a)
    \/ MountClaimConfirm
    \/ RenderClaimConfirm
    \/ UnmountClaimConfirm
    \/ OnClickBack
    \/ OnClickConfirm
    \/ \E t \in claimTasks : PollClaimTask(t)
    \/ \E c \in claimCalls, ok \in BOOLEAN : ClaimResolve(c, ok)
    \/ \E c \in claimCalls, ok \in BOOLEAN : ClaimResolveDropped(c, ok)

Spec == Init /\ [][Next]_vars

\* The wallet bridge and the gateway eventually answer every call, a spawned
\* task is eventually polled, and a scheduled re-render eventually runs.
FairSpec ==
    /\ Spec
    /\ WF_vars(BridgeAnswers)
    /\ WF_vars(GatewayAnswers)
    /\ WF_vars(PollsTasks)
    /\ WF_vars(MountClaimConfirm)
    /\ WF_vars(RenderClaimConfirm)
    /\ WF_vars(UnmountClaimConfirm)

ImportNext ==
    \/ \E r \in BalanceAnswers : SolBalanceResolve(r)
    \/ SolBalanceRestart
    \/ StepEffect
    \/ OnClickAcknowledge
    \/ \E k \in Keys : OnInput(k)
    \/ RunValidation
    \/ \E r \in BalanceAnswers : BalanceResolve(r)
    \/ OnClickImport

ImportSpec == Init /\ [][ImportNext]_vars

TypeOK ==
    /\ status \in InvokeSignatureStatus
    /\ bridgePending \in 0..MaxInvokes
    /\ bridgeCalls \in 0..MaxInvokes
    /\ invokeClicks \in 0..MaxInvokes
    /\ results \in Seq(BOOLEAN)
    /\ claim_step \in ClaimStep
    /\ confirmMounted \in BOOLEAN
    /\ is_busy \in BOOLEAN
    /\ confirm_disabled \in BOOLEAN
    /\ amount \in 0..MaxAmount
    /\ claimSubmits \in 0..MaxSubmits
    /\ proof_restarts \in 0..MaxSubmits
    /\ step \in ImportKeyStep
    /\ sol_balance \in BalanceAnswers \cup {AsyncLoading}
    /\ acknowledged \in BOOLEAN
    /\ private_key_input \in Keys
    /\ enable_import_button \in BOOLEAN
    /\ err_msg \in {NoError, "Invalid length", "Invalid format"}
    /\ import_sol_balance \in BalanceAnswers \cup {NoBalance}
    /\ balanceQuery \in Keys \cup {NoQuery}
    /\ balanceQueries \in 0..MaxInputs
    /\ inputChanges \in 0..MaxInputs
    /\ pasted \in Keys
    /\ queriedInputs \subseteq Keys
    /\ validationDue \in BOOLEAN
    /\ panicked \in BOOLEAN
    /\ keypair_persistent \in Keys \cup {CurrentKey}

\* ============================================================ claims
\* The edges of the status diagram.
AllowedEdge(s, t) ==
    \/ s = Start /\ t = Waiting
    \/ s = Waiting /\ t \in {Done(x) : x \in Sigs}
    \/ s = Waiting /\ t = DoneWithError
    \/ s = DoneWithError /\ t = Waiting

\* C1: every change of the status follows one of the edges Start -> Waiting,
\* Waiting -> Done(signature), Waiting -> DoneWithError, DoneWithError -> Waiting.
C1_StatusEdges == [][status' # status => AllowedEdge(status, status')]_vars

\* All four edges have been taken: a failure, a retry, then a signature.
C1_Witness == status.tag = "Done" /\ results = <<FALSE, TRUE>>

\* C2: every bridge call yields exactly one outcome, written to the status as
\* exactly one of Done / DoneWithError while it is Waiting, and a Waiting
\* status eventually becomes Done or DoneWithError once the bridge answers.
C2_ExactlyOneOutcome ==
    /\ [](Len(results) + bridgePending = bridgeCalls)
    /\ [][Len(results') # Len(results) =>
            /\ Len(results') = Len(results) + 1
            /\ status = Waiting
            /\ status'.tag = (IF results'[Len(results')] THEN "Done"
                                                         ELSE "DoneWithError")]_vars
    /\ (status.tag = "Waiting") ~> (status.tag \in {"Done", "DoneWithError"})

\* Two attempts, each answered once, both with a failure.
C2_Witness ==
    /\ status = DoneWithError
    /\ results = <<FALSE, FALSE>>
    /\ bridgeCalls = 2
    /\ bridgePending = 0

\* C3: the click on the Start control leaves the status Waiting in the very
\* next state, with the bridge call still pending and no result applied.
C3_StartSetsWaiting ==
    [][(status = Start /\ invokeClicks' # invokeClicks) =>
          /\ status' = Waiting
          /\ bridgePending' = 1
          /\ results' = results]_vars

\* The first click has been handled and the bridge has not answered.
C3_Witness == status = Waiting /\ invokeClicks = 1 /\ results = <<>>

\* C4: while the status is Waiting the rendered control has no handler and no
\* invoke is enabled; at most one bridge call is in flight, and one is in
\* flight exactly while the status is Waiting.
C4_NoInvokeWhileWaiting ==
    /\ status = Waiting =>
          /\ InvokeSignature(status) \notin {"StartButton", "RetryButton"}
          /\ ~ENABLED (OnClickStart \/ OnClickRetry)
    /\ bridgePending <= 1
    /\ (bridgePending = 1) <=> (status = Waiting)

\* A retry is in flight and the click budget of the model is not used up.
C4_Witness == status = Waiting /\ invokeClicks = 2 /\ bridgePending = 1

\* C5: once the status is Done it never changes and no bridge call is made or
\* left pending.
C5_DoneTerminal ==
    /\ [](status.tag = "Done" => bridgePending = 0)
    /\ [][status.tag = "Done" =>
            /\ status' = status
            /\ bridgeCalls' = bridgeCalls
            /\ bridgePending' = bridgePending]_vars

\* Done after a single click, while the claim wizard keeps taking steps.
C5_Witness ==
    /\ status.tag = "Done"
    /\ invokeClicks = 1
    /\ claim_step = "Confirm"
    /\ is_busy

\* C6: the number of bridge calls equals the number of clicks on the Start /
\* Retry control, and applying a result makes no call.
C6_OneCallPerClick ==
    /\ [](bridgeCalls = invokeClicks)
    /\ [][Len(results') # Len(results) =>
            /\ bridgeCalls' = bridgeCalls
            /\ bridgePending' = bridgePending - 1]_vars

\* Three clicks, three calls, the last one failed and nothing is in flight.
C6_Witness ==
    /\ invokeClicks = 3
    /\ bridgeCalls = 3
    /\ status = DoneWithError
    /\ bridgePending = 0

\* C7: the status is always one of the four variants; after any number of
\* failures DoneWithError renders the Retry control, whose click is enabled
\* (within the explored number of clicks) and sets the status to Waiting.
C7_RetryReentersWaiting ==
    /\ [](status \in InvokeSignatureStatus)
    /\ [](status = DoneWithError =>
            /\ InvokeSignature(status) = "RetryButton"
            /\ (invokeClicks < MaxInvokes => ENABLED OnClickRetry))
    /\ [][(status = DoneWithError /\ invokeClicks' # invokeClicks) =>
            status' = Waiting]_vars

\* Done is reached by the retry that follows two consecutive failures.
C7_Witness == status.tag = "Done" /\ results = <<FALSE, FALSE, TRUE>>

\* C8: every answer of the gateway to a submitted claim: a success moves the
\* step Confirm -> Done, clears busy and restarts the proof query once; a
\* failure leaves the step at Confirm with busy cleared and no restart.
C8_SubmitOutcome ==
    [][claimAnswer' # claimAnswer =>
          /\ ~is_busy'
          /\ IF claimAnswer'.ok
               THEN /\ claim_step = "Confirm"
                    /\ claim_step' = "Done"
                    /\ proof_restarts' = proof_restarts + 1
               ELSE /\ claim_step' = "Confirm"
                    /\ proof_restarts' = proof_restarts]_vars

\* C9: the step becomes Done only from Confirm and only in the step that
\* applies a successful answer; it goes from Confirm to Edit only by Back.
C9_DoneOnlyFromConfirm ==
    [][/\ (claim_step' = "Done" /\ claim_step # "Done") =>
              /\ claim_step = "Confirm"
              /\ claimAnswer' # claimAnswer
              /\ claimAnswer'.ok
       /\ (claim_step = "Confirm" /\ claim_step' = "Edit") =>
              claimAnswer' = claimAnswer]_vars

\* C10: at most one claim call is unanswered at a time; Confirm can be
\* clicked only when busy is false; and a mounted confirm screen shows busy
\* for as long as a claim call of the flow is unanswered.
C10_OneClaimInFlight ==
    /\ Cardinality(claimCalls) <= 1
    /\ ENABLED OnClickConfirm => ~is_busy
    /\ (confirmMounted /\ claimCalls # {}) => is_busy

\* C11: while the busy flag is true no user action is enabled that takes the
\* wizard back to Edit or stages another amount.
C11_AmountFrozenWhileBusy ==
    is_busy => ~ENABLED (OnClickBack \/ \E a \in Amounts : EnterConfirm(a))

\* C12: the step that applies the gateway's answer clears the busy flag on
\* success and on failure, after a failure the disabled attribute of the
\* Confirm control evaluates to false, a set busy flag is eventually cleared,
\* and a Confirm button rendered disabled is eventually rendered enabled.
C12_BusyClears ==
    /\ [][(claimAnswer' # claimAnswer /\ claimAnswer'.live) =>
            /\ ~is_busy'
            /\ (~claimAnswer'.ok => ~ConfirmDisabled')]_vars
    /\ is_busy ~> ~is_busy
    /\ confirm_disabled ~> ~confirm_disabled

\* A failed claim was applied: still at Confirm, busy cleared, Confirm enabled.
C12_Witness ==
    /\ claimAnswer.live
    /\ ~claimAnswer.ok
    /\ claimAnswer.id = 1
    /\ claim_step = "Confirm"
    /\ confirmMounted
    /\ ~is_busy
    /\ ENABLED OnClickConfirm

\* The three checks of the key validation: base58 decodes, 64 bytes, keypair.
PassesAllChecks(k) ==
    /\ bs58_decode(k).ok
    /\ bs58_decode(k).len = KEY_LENGTH
    /\ Keypair_from_bytes(k)

\* C13: after any sequence of input changes, once the validation has run on
\* the current input, the import action is enabled only if that input passes
\* all three checks.
C13_ImportOnlyForValidKey ==
    (~ImportDisabled /\ ~validationDue) => PassesAllChecks(private_key_input)

\* C14: a run of the validation that fails on the written input leaves no
\* balance displayed.
C14_FailureClearsBalance ==
    [][(validationDue /\ ~validationDue' /\ ~PassesAllChecks(private_key_input)) =>
          ~BalanceShown']_vars

\* C15: for every pasted text, once no validation of it is outstanding: empty
\* -> no message, import disabled; not base58 -> "Invalid format", disabled;
\* decoded to a nonzero length other than 64 -> "Invalid length", disabled; a
\* 64-byte keypair -> import enabled and a balance query issued for it; and
\* no input is queried a second time.
C15_ValidationOutcome ==
    /\ [](~validationDue =>
            LET k == pasted
                d == bs58_decode(k)
            IN  /\ k = "" => (err_msg = NoError /\ ImportDisabled)
                /\ ~d.ok => (err_msg = "Invalid format" /\ ImportDisabled)
                /\ (d.ok /\ d.len # 0 /\ d.len # KEY_LENGTH) =>
                       (err_msg = "Invalid length" /\ ImportDisabled)
                /\ PassesAllChecks(k) =>
                       (~ImportDisabled /\ k \in queriedInputs))
    /\ [][balanceQueries' # balanceQueries =>
            balanceQuery' \notin queriedInputs]_vars

\* C16: the step leaves Loading on an Ok balance only, to Import when the
\* balance is 0 and to Warning when it is positive; from Warning it goes to
\* Import only by the click on the acknowledgment button.
C16_WarningGating ==
    /\ [][(step = "Loading" /\ step' # "Loading") =>
            /\ sol_balance.tag = "Ok"
            /\ step' = (IF sol_balance.val = 0 THEN "Import" ELSE "Warning")
            /\ ~acknowledged']_vars
    /\ [][(step = "Warning" /\ step' # "Warning") =>
            /\ step' = "Import"
            /\ ~acknowledged
            /\ acknowledged']_vars
    /\ [](step = "Warning" => ~acknowledged)

\* Import was reached through Warning and the click, with a positive balance.
C16_Witness ==
    /\ step = "Import"
    /\ acknowledged
    /\ sol_balance.tag = "Ok"
    /\ sol_balance.val > 0

\* C18: a balance query is issued only in a run of the validation on an input
\* that passes all three checks, and for that input.
C18_NoQueryForInvalidInput ==
    /\ [][balanceQueries' # balanceQueries =>
            /\ validationDue /\ ~validationDue'
            /\ PassesAllChecks(private_key_input)
            /\ balanceQuery' = private_key_input]_vars
    /\ [](balanceQuery # NoQuery =>
            (balanceQuery = private_key_input /\ PassesAllChecks(balanceQuery)))

\* Three inputs were validated, the 64-byte value that is no keypair last:
\* one query.
C18_Witness ==
    /\ inputChanges = 3
    /\ balanceQueries = 1
    /\ private_key_input = "64-bytes-no-keypair"
    /\ ~validationDue
    /\ ~panicked
    /\ err_msg = "Invalid format"

\* C19: whenever the import action is enabled and the validation has run on
\* the current input, no validation message is shown.
C19_NoErrorWhenEnabled ==
    (~ImportDisabled /\ ~validationDue) => err_msg = NoError

\* C20: the step only moves Loading -> Warning, Loading -> Import and
\* Warning -> Import, and stays Loading while the balance is not Ok.
C20_StepMonotone ==
    /\ [][step' # step =>
            <<step, step'>> \in {<<"Loading", "Warning">>, <<"Loading", "Import">>,
                                 <<"Warning", "Import">>}]_vars
    /\ [][(step = "Loading" /\ sol_balance.tag # "Ok") => step' = "Loading"]_vars

\* The balance query was restarted and failed after the step reached Import.
C20_Witness ==
    /\ step = "Import"
    /\ sol_balance = AsyncError
    /\ ~acknowledged

====
